---- MODULE Spec2Model ----
(***************************************************************************)
(* A model of singer/messages.py: the Singer message variants, their      *)
(* canonical mapping (asdict), parse_message / format_message and the      *)
(* write_* functions that append one line per message to sys.stdout.       *)
(*                                                                         *)
(* Python values are tagged records (field k names the Python type), JSON  *)
(* text is a tagged tree (field j names the JSON production) and bytes are *)
(* sequences of such trees, with a separate token for the newline byte.    *)
(* Numbers are counted in tenths: PyInt(1) is 1, PyDecimal(105) is 10.5    *)
(* and PyFloat(n) is the binary double nearest to n/10, which equals n/10  *)
(* exactly only when n/10 is a multiple of 1/2 in this range.              *)
(***************************************************************************)
EXTENDS Integers, Sequences, FiniteSets, TLC

VARIABLES
    phase,        \* pipeline position: "start", "constructed", "formatted", "parsed"
    args,         \* the arguments of the last constructor or write_* call
    built,        \* what the constructor call produced: a message object or a raised exception
    wire,         \* bytes: format_message's result, or a line received from the tap
    parsed,       \* parse_message's outcome: a message, None, or a raised exception
    warnings,     \* what LOGGER.warning has been called with, in order
    stdout,       \* sys.stdout.buffer: [buffer |-> pending bytes, file |-> flushed bytes]
    written,      \* history: the messages whose write_message call has returned, in order
    raised,       \* the exception the last write_* call let through, or None
    pc,           \* per producer thread: its position inside write_message
    staged        \* per producer thread: its message and the bytes format_message returned

pipelineVars == <<phase, args, built, wire, parsed, warnings>>
writerVars == <<stdout, written, raised>>
threadVars == <<pc, staged>>
vars == <<pipelineVars, writerVars, threadVars>>

-----------------------------------------------------------------------------
(* Python values *)

PyNone == [k |-> "NoneType"]
PyStr(s) == [k |-> "str", s |-> s]
PyInt(i) == [k |-> "int", i |-> i]
PyDecimal(n) == [k |-> "Decimal", tenths |-> n]
PyFloat(n) == [k |-> "float", tenths |-> n]
PyList(items) == [k |-> "list", items |-> items]
PyTuple(items) == [k |-> "tuple", items |-> items]
PyDict(map) == [k |-> "dict", map |-> map]
PyBytes(s) == [k |-> "bytes", s |-> s]
\* a bytes object holding JSON text: the sequence of its JSON documents and newlines
Bytes(data) == [k |-> "bytes", data |-> data]
\* a datetime: wall-clock reading, whether tzinfo is set, and its UTC offset
PyDateTime(wall, aware, off) == [k |-> "datetime", wall |-> wall, aware |-> aware, off |-> off]
\* a str holding an ISO-8601 timestamp, with ("...Z", "...+01:00") or without an offset
PyTimeStr(wall, aware, off) == [k |-> "str", ts |-> wall, aware |-> aware, off |-> off]

EmptyMap == [x \in {} |-> PyNone]

Raise(exc, text) == [raised |-> exc, text |-> text]
IsRaised(x) == "raised" \in DOMAIN x
IsMessage(x) == "cls" \in DOMAIN x

\* Python truth value testing (bool(v))
Truthy(v) ==
    CASE v.k = "NoneType" -> FALSE
      [] v.k \in {"str", "bytes"} -> IF "s" \in DOMAIN v THEN v.s /= "" ELSE TRUE
      [] v.k = "int" -> v.i /= 0
      [] v.k \in {"Decimal", "float"} -> v.tenths /= 0
      [] v.k \in {"list", "tuple"} -> Len(v.items) > 0
      [] v.k = "dict" -> DOMAIN v.map /= {}
      [] OTHER -> TRUE

IsNumber(v) == v.k \in {"int", "Decimal", "float"}
Tenths(v) == IF v.k = "int" THEN 10 * v.i ELSE v.tenths
\* whether the number holds exactly Tenths(v)/10: a double does only for multiples of 1/2
Exact(v) == v.k /= "float" \/ v.tenths % 5 = 0

\* Python's == on values
RECURSIVE PyEq(_, _)
PyEq(a, b) ==
    IF IsNumber(a) /\ IsNumber(b)
    THEN /\ Tenths(a) = Tenths(b)
         /\ \/ (a.k = "float" /\ b.k = "float")
            \/ (Exact(a) /\ Exact(b))
    ELSE IF a.k /= b.k THEN FALSE
    ELSE CASE a.k \in {"list", "tuple"} ->
                /\ Len(a.items) = Len(b.items)
                /\ \A i \in 1..Len(a.items) : PyEq(a.items[i], b.items[i])
           [] a.k = "dict" ->
                /\ DOMAIN a.map = DOMAIN b.map
                /\ \A key \in DOMAIN a.map : PyEq(a.map[key], b.map[key])
           [] a.k = "datetime" ->
                /\ a.aware = b.aware
                /\ a.wall - a.off = b.wall - b.off
           [] OTHER -> a = b

-----------------------------------------------------------------------------
(* JSON text, as orjson writes and reads it *)

JNull == [j |-> "null"]
JString(v) == [j |-> "string", str |-> v]
JInt(i) == [j |-> "int", i |-> i]
JReal(n) == [j |-> "real", tenths |-> n]
JArray(items) == [j |-> "array", items |-> items]
JObject(members) == [j |-> "object", members |-> members]
Newline == [j |-> "newline"]

OPT_APPEND_NEWLINE == 1024

\* format_message's default(obj), which orjson calls on a type it cannot serialize
default(obj) ==
    IF obj.k = "Decimal"
    THEN IF obj.tenths % 10 = 0 THEN PyInt(obj.tenths \div 10) ELSE PyFloat(obj.tenths)
    ELSE Raise("TypeError", "")

\* the types orjson serializes without help, and Decimal, which default() converts
RECURSIVE Serializable(_)
Serializable(v) ==
    CASE v.k \in {"list", "tuple"} -> \A i \in 1..Len(v.items) : Serializable(v.items[i])
      [] v.k = "dict" -> \A key \in DOMAIN v.map : Serializable(v.map[key])
      [] v.k \in {"NoneType", "str", "int", "float", "datetime"} -> TRUE
      [] OTHER -> ~IsRaised(default(v))

RECURSIVE orjson_encode(_)
orjson_encode(v) ==
    CASE v.k = "NoneType" -> JNull
      [] v.k = "str" -> JString(v)
      [] v.k = "int" -> JInt(v.i)
      [] v.k = "float" -> JReal(v.tenths)
      [] v.k = "datetime" -> JString(PyTimeStr(v.wall, v.aware, v.off))
      [] v.k \in {"list", "tuple"} ->
            JArray([i \in 1..Len(v.items) |-> orjson_encode(v.items[i])])
      [] v.k = "dict" ->
            JObject([key \in DOMAIN v.map |-> orjson_encode(v.map[key])])
      [] OTHER -> orjson_encode(default(v))

\* orjson.dumps(obj, option=option, default=default): bytes, or the TypeError raised
orjson_dumps(obj, option) ==
    IF ~Serializable(obj) THEN Raise("TypeError", "Type is not JSON serializable")
    ELSE Bytes(<<orjson_encode(obj)>> \o
               (IF option = OPT_APPEND_NEWLINE THEN <<Newline>> ELSE <<>>))

RECURSIVE orjson_loads_value(_)
orjson_loads_value(t) ==
    CASE t.j = "null" -> PyNone
      [] t.j = "string" -> t.str
      [] t.j = "int" -> PyInt(t.i)
      [] t.j = "real" -> PyFloat(t.tenths)
      [] t.j = "array" ->
            PyList([i \in 1..Len(t.items) |-> orjson_loads_value(t.items[i])])
      [] t.j = "object" ->
            PyDict([key \in DOMAIN t.members |-> orjson_loads_value(t.members[key])])

\* orjson.loads(bytes): one JSON document, trailing whitespace allowed
orjson_loads(bytes) == orjson_loads_value(bytes.data[1])

-----------------------------------------------------------------------------
(* The message variants *)

\* datetime.astimezone(pytz.utc) on an aware datetime: the same instant, offset 0
astimezone_utc(dt) == PyDateTime(dt.wall - dt.off, TRUE, 0)

\* singer.utils.strftime on a datetime pegged at UTC: the fixed text form, "Z" at its end
strftime(dtime) == PyTimeStr(dtime.wall, TRUE, 0)

\* the check left out: every time_extracted passes
check_time_extracted_skipped(time_extracted) == PyNone

\* the check both RecordMessage.__init__ and BatchMessage.__init__ end with:
\* the exception it raises, or PyNone when it passes
check_time_extracted(time_extracted) ==
    IF ~Truthy(time_extracted) THEN PyNone
    ELSE IF time_extracted.k /= "datetime"
         THEN Raise("AttributeError", "object has no attribute 'tzinfo'")
    ELSE IF ~time_extracted.aware
         THEN Raise("ValueError", "'time_extracted' must be either None or an aware datetime (with a time zone)")
    ELSE PyNone

RecordMessage(stream, record, version, time_extracted) ==
    IF IsRaised(check_time_extracted(time_extracted))
    THEN check_time_extracted(time_extracted)
    ELSE [cls |-> "RecordMessage", stream |-> stream, record |-> record,
          version |-> version, time_extracted |-> time_extracted]

\* version tested for truth instead of against None: version 0 is left out
RecordMessage_asdict_truthy_version(self) ==
    ("type" :> PyStr("RECORD")) @@ ("stream" :> self.stream) @@ ("record" :> self.record)
    @@ (IF Truthy(self.version) THEN "version" :> self.version ELSE EmptyMap)
    @@ (IF Truthy(self.time_extracted)
        THEN "time_extracted" :> strftime(astimezone_utc(self.time_extracted))
        ELSE EmptyMap)

RecordMessage_asdict(self) ==
    ("type" :> PyStr("RECORD")) @@ ("stream" :> self.stream) @@ ("record" :> self.record)
    @@ (IF self.version /= PyNone THEN "version" :> self.version ELSE EmptyMap)
    @@ (IF Truthy(self.time_extracted)
        THEN "time_extracted" :> strftime(astimezone_utc(self.time_extracted))
        ELSE EmptyMap)

\* lines 98-99 of SchemaMessage.__init__: a str or bytes becomes a one-element list
normalize_bookmark_properties(bookmark_properties) ==
    IF bookmark_properties.k \in {"str", "bytes"}
    THEN PyList(<<bookmark_properties>>)
    ELSE bookmark_properties

\* lines 100-101 of SchemaMessage.__init__: whether the normalized value is refused
rejects_bookmark_properties(bookmark_properties) ==
    Truthy(bookmark_properties) /\ bookmark_properties.k /= "list"

\* key_properties treated the way write_schema treats it: a bare string is wrapped
SchemaMessage_wrapping_key_properties(stream, schema, key_properties, bookmark_properties) ==
    IF rejects_bookmark_properties(normalize_bookmark_properties(bookmark_properties))
    THEN Raise("Exception", "bookmark_properties must be a string or list of strings")
    ELSE [cls |-> "SchemaMessage", stream |-> stream, schema |-> schema,
          key_properties |-> IF key_properties.k \in {"str", "bytes"}
                             THEN PyList(<<key_properties>>) ELSE key_properties,
          bookmark_properties |-> normalize_bookmark_properties(bookmark_properties)]

SchemaMessage(stream, schema, key_properties, bookmark_properties) ==
    IF rejects_bookmark_properties(normalize_bookmark_properties(bookmark_properties))
    THEN Raise("Exception", "bookmark_properties must be a string or list of strings")
    ELSE [cls |-> "SchemaMessage", stream |-> stream, schema |-> schema,
          key_properties |-> key_properties,
          bookmark_properties |-> normalize_bookmark_properties(bookmark_properties)]

SchemaMessage_asdict(self) ==
    ("type" :> PyStr("SCHEMA")) @@ ("stream" :> self.stream) @@ ("schema" :> self.schema)
    @@ ("key_properties" :> self.key_properties)
    @@ (IF Truthy(self.bookmark_properties)
        THEN "bookmark_properties" :> self.bookmark_properties
        ELSE EmptyMap)

StateMessage(value) == [cls |-> "StateMessage", value |-> value]

StateMessage_asdict(self) == ("type" :> PyStr("STATE")) @@ ("value" :> self.value)

ActivateVersionMessage(stream, version) ==
    [cls |-> "ActivateVersionMessage", stream |-> stream, version |-> version]

ActivateVersionMessage_asdict(self) ==
    ("type" :> PyStr("ACTIVATE_VERSION")) @@ ("stream" :> self.stream)
    @@ ("version" :> self.version)

BatchMessage(stream, filepath, file_format, compression, batch_size, time_extracted) ==
    IF IsRaised(check_time_extracted(time_extracted))
    THEN check_time_extracted(time_extracted)
    ELSE [cls |-> "BatchMessage", stream |-> stream, filepath |-> filepath,
          format |-> IF Truthy(file_format) THEN file_format ELSE PyStr("jsonl"),
          compression |-> compression, batch_size |-> batch_size,
          time_extracted |-> time_extracted]

BatchMessage_asdict(self) ==
    ("type" :> PyStr("BATCH")) @@ ("stream" :> self.stream)
    @@ ("filepath" :> self.filepath) @@ ("format" :> self.format)
    @@ (IF self.compression /= PyNone THEN "compression" :> self.compression ELSE EmptyMap)
    @@ (IF self.batch_size /= PyNone THEN "batch_size" :> self.batch_size ELSE EmptyMap)
    @@ (IF Truthy(self.time_extracted)
        THEN "time_extracted" :> strftime(astimezone_utc(self.time_extracted))
        ELSE EmptyMap)

\* message.asdict(), dispatched on the object's class
asdict(self) ==
    PyDict(CASE self.cls = "RecordMessage" -> RecordMessage_asdict(self)
             [] self.cls = "SchemaMessage" -> SchemaMessage_asdict(self)
             [] self.cls = "StateMessage" -> StateMessage_asdict(self)
             [] self.cls = "ActivateVersionMessage" -> ActivateVersionMessage_asdict(self)
             [] self.cls = "BatchMessage" -> BatchMessage_asdict(self))

\* Message.__eq__
Message_eq(self, other) == IsMessage(other) /\ PyEq(asdict(self), asdict(other))

-----------------------------------------------------------------------------
(* parse_message and format_message *)

in(k, msg) == k \in DOMAIN msg.map
get(obj, k) == IF in(k, obj) THEN obj.map[k] ELSE PyNone

MissingKey(k) == [raised |-> "Exception", text |-> "Message is missing required key", key |-> k]

\* dict.get in place of the check: a missing key reads as None
required_key_as_get(msg, k) == get(msg, k)

_required_key(msg, k) == IF ~in(k, msg) THEN MissingKey(k) ELSE msg.map[k]

\* ciso8601.parse_datetime: a datetime (naive when the text carries no offset) or a raise
ciso8601_parse_datetime(text) ==
    IF text.k /= "str" THEN Raise("TypeError", "argument must be str")
    ELSE IF "ts" \notin DOMAIN text THEN Raise("ValueError", "Invalid character")
    ELSE PyDateTime(text.ts, text.aware, text.off)

\* time_extracted read but never handed on to the constructor
parse_time_extracted_dropped(obj) == [value |-> PyNone, warned |-> FALSE]

\* the time_extracted handling the RECORD and BATCH branches share: the value handed to
\* the constructor, and whether LOGGER.warning was called
parse_time_extracted(obj) ==
    LET time_extracted == get(obj, "time_extracted") IN
    IF ~Truthy(time_extracted) THEN [value |-> time_extracted, warned |-> FALSE]
    ELSE IF IsRaised(ciso8601_parse_datetime(time_extracted))
         THEN [value |-> PyNone, warned |-> TRUE]
    ELSE [value |-> ciso8601_parse_datetime(time_extracted), warned |-> FALSE]

\* the first of the keys ks that obj lacks, as the exception _required_key raises for it;
\* PyNone when obj has them all
RECURSIVE first_missing(_, _)
first_missing(obj, ks) ==
    IF ks = <<>> THEN PyNone
    ELSE IF IsRaised(_required_key(obj, Head(ks))) THEN _required_key(obj, Head(ks))
    ELSE first_missing(obj, Tail(ks))

\* an unmatched msg_type treated as an error
unrecognized_raises(obj) == Raise("Exception", "Unknown message type")

\* the last line of parse_message: no branch matched msg_type
unrecognized(obj) == PyNone

\* parse_message from the decoded object on: what it returns or raises
parse_object(obj) ==
    LET msg_type == _required_key(obj, "type") IN
    IF IsRaised(msg_type) THEN msg_type
    ELSE IF PyEq(msg_type, PyStr("RECORD")) THEN
        IF IsRaised(first_missing(obj, <<"stream", "record">>))
        THEN first_missing(obj, <<"stream", "record">>)
        ELSE RecordMessage(_required_key(obj, "stream"), _required_key(obj, "record"),
                           get(obj, "version"), parse_time_extracted(obj).value)
    ELSE IF PyEq(msg_type, PyStr("SCHEMA")) THEN
        IF IsRaised(first_missing(obj, <<"stream", "schema", "key_properties">>))
        THEN first_missing(obj, <<"stream", "schema", "key_properties">>)
        ELSE SchemaMessage(_required_key(obj, "stream"), _required_key(obj, "schema"),
                           _required_key(obj, "key_properties"),
                           get(obj, "bookmark_properties"))
    ELSE IF PyEq(msg_type, PyStr("STATE")) THEN
        IF IsRaised(first_missing(obj, <<"value">>))
        THEN first_missing(obj, <<"value">>)
        ELSE StateMessage(_required_key(obj, "value"))
    ELSE IF PyEq(msg_type, PyStr("ACTIVATE_VERSION")) THEN
        IF IsRaised(first_missing(obj, <<"stream", "version">>))
        THEN first_missing(obj, <<"stream", "version">>)
        ELSE ActivateVersionMessage(_required_key(obj, "stream"),
                                    _required_key(obj, "version"))
    ELSE IF PyEq(msg_type, PyStr("BATCH")) THEN
        IF IsRaised(first_missing(obj, <<"stream", "filepath", "format">>))
        THEN first_missing(obj, <<"stream", "filepath", "format">>)
        ELSE BatchMessage(_required_key(obj, "stream"), _required_key(obj, "filepath"),
                          _required_key(obj, "format"), get(obj, "compression"),
                          get(obj, "batch_size"), parse_time_extracted(obj).value)
    ELSE unrecognized(obj)

\* the warnings parse_message logs: one when a RECORD's or a BATCH's time_extracted
\* does not parse (the try block runs before any other key is read)
parse_warnings(obj) ==
    LET msg_type == _required_key(obj, "type") IN
    IF IsRaised(msg_type) THEN <<>>
    ELSE IF PyEq(msg_type, PyStr("RECORD")) /\ parse_time_extracted(obj).warned
         THEN <<"unable to parse time_extracted with ciso8601 library">>
    ELSE IF PyEq(msg_type, PyStr("BATCH")) /\ parse_time_extracted(obj).warned
         THEN <<"Unable to parse time_extracted with ciso8601 library">>
    ELSE <<>>

parse_message(msg) == parse_object(orjson_loads(msg))

format_message(message, option) == orjson_dumps(asdict(message), option)

-----------------------------------------------------------------------------
(* Writing to sys.stdout.buffer *)

\* a write that takes no lock: its bytes land around what another call left pending
BufferedWriter_write_torn(out, bytes) ==
    [out EXCEPT !.buffer = SubSeq(bytes.data, 1, 1) \o @ \o SubSeq(bytes.data, 2, Len(bytes.data))]

\* sys.stdout.buffer.write(bytes): one call appends all of bytes to the pending buffer
\* (io.BufferedWriter holds its own lock for the length of the call)
BufferedWriter_write(out, bytes) == [out EXCEPT !.buffer = @ \o bytes.data]

\* sys.stdout.buffer.flush(): everything pending goes to the file
BufferedWriter_flush(out) == [buffer |-> <<>>, file |-> out.file \o out.buffer]

\* What a write_* call does: the state it leaves sys.stdout.buffer in, the messages it
\* wrote (in order), and the exception it let through (None when it returned).
Effect(out, wrote, exc) == [stdout |-> out, wrote |-> wrote, raised |-> exc]

\* the flush left out: the line stays in the pending buffer
write_message_unflushed(out, message) ==
    LET bytes == format_message(message, OPT_APPEND_NEWLINE) IN
    IF IsRaised(bytes) THEN Effect(out, <<>>, bytes)
    ELSE Effect(BufferedWriter_write(out, bytes), <<message>>, PyNone)

write_message(out, message) ==
    LET bytes == format_message(message, OPT_APPEND_NEWLINE) IN
    IF IsRaised(bytes) THEN Effect(out, <<>>, bytes)
    ELSE Effect(BufferedWriter_flush(BufferedWriter_write(out, bytes)), <<message>>, PyNone)

\* a call that first constructs its message: the constructor's exception goes through
write_constructed(out, message) ==
    IF IsRaised(message) THEN Effect(out, <<>>, message) ELSE write_message(out, message)

write_record(out, stream_name, record, stream_alias, time_extracted) ==
    write_constructed(out,
        RecordMessage(IF Truthy(stream_alias) THEN stream_alias ELSE stream_name,
                      record, PyNone, time_extracted))

RECURSIVE write_records(_, _, _)
write_records(out, stream_name, records) ==
    IF records = <<>> THEN Effect(out, <<>>, PyNone)
    ELSE LET first == write_record(out, stream_name, Head(records), PyNone, PyNone) IN
         IF first.raised /= PyNone THEN first
         ELSE LET rest == write_records(first.stdout, stream_name, Tail(records)) IN
              Effect(rest.stdout, first.wrote \o rest.wrote, rest.raised)

write_schema(out, stream_name, schema, key_properties, bookmark_properties, stream_alias) ==
    LET normalized == IF key_properties.k \in {"str", "bytes"}
                      THEN PyList(<<key_properties>>) ELSE key_properties IN
    IF normalized.k /= "list"
    THEN Effect(out, <<>>, Raise("Exception", "key_properties must be a string or list of strings"))
    ELSE write_constructed(out,
            SchemaMessage(IF Truthy(stream_alias) THEN stream_alias ELSE stream_name,
                          schema, normalized, bookmark_properties))

write_state(out, value) == write_constructed(out, StateMessage(value))

write_version(out, stream_name, version) ==
    write_constructed(out, ActivateVersionMessage(stream_name, version))

write_batch(out, stream_name, filepath, file_format, compression, batch_size, time_extracted) ==
    write_constructed(out,
        BatchMessage(stream_name, filepath, file_format, compression, batch_size,
                     time_extracted))

-----------------------------------------------------------------------------
(* Construct, format, parse: the values the constructors are called with *)

Streams == {PyStr("users")}

Payloads ==
    { PyDict(EmptyMap),
      PyDict("id" :> PyInt(1)),
      PyDict("amount" :> PyDecimal(100)),
      PyDict("amount" :> PyDecimal(105)),
      PyDict("amount" :> PyDecimal(1)),
      PyDict("blob" :> PyBytes("x")) }

Versions == {PyNone, PyInt(0), PyInt(2)}

\* absent, aware at UTC, aware at +01:00 (the same instant), naive, and an empty string
TimesExtracted ==
    { PyNone, PyDateTime(60, TRUE, 0), PyDateTime(120, TRUE, 60), PyDateTime(60, FALSE, 0),
      PyStr("") }

KeyProperties ==
    {PyList(<<PyStr("id")>>), PyList(<<>>), PyStr("id"), PyInt(7)}

BookmarkProperties ==
    { PyNone, PyStr("updated_at"), PyList(<<PyStr("updated_at")>>), PyList(<<>>),
      PyInt(0), PyInt(5), PyDict(EmptyMap), PyDict("a" :> PyInt(1)),
      PyTuple(<<>>), PyTuple(<<PyStr("updated_at")>>) }

Filepaths == {PyStr("/tmp/users0001.jsonl")}
FileFormats == {PyNone, PyStr("csv")}
Compressions == {PyNone, PyStr("gzip")}
BatchSizes == {PyNone, PyInt(0), PyInt(100)}

Idle == [op |-> "none"]

InitPipeline ==
    /\ phase = "start"
    /\ args = Idle
    /\ built = PyNone
    /\ wire = Bytes(<<>>)
    /\ parsed = PyNone
    /\ warnings = <<>>

InitWriter ==
    /\ stdout = [buffer |-> <<>>, file |-> <<>>]
    /\ written = <<>>
    /\ raised = PyNone

NoThreads ==
    /\ pc = <<>>
    /\ staged = <<>>

Init == InitPipeline /\ InitWriter /\ NoThreads

NewRecordMessage ==
    /\ phase = "start"
    /\ \E stream \in Streams, record \in Payloads, version \in Versions,
          time_extracted \in TimesExtracted :
        /\ args' = [op |-> "RecordMessage", stream |-> stream, record |-> record,
                    version |-> version, time_extracted |-> time_extracted]
        /\ built' = RecordMessage(stream, record, version, time_extracted)
    /\ phase' = "constructed"
    /\ UNCHANGED <<wire, parsed, warnings, writerVars, threadVars>>

NewSchemaMessage ==
    /\ phase = "start"
    /\ \E stream \in Streams, schema \in {PyDict(EmptyMap)},
          key_properties \in KeyProperties, bookmark_properties \in BookmarkProperties :
        /\ args' = [op |-> "SchemaMessage", stream |-> stream, schema |-> schema,
                    key_properties |-> key_properties,
                    bookmark_properties |-> bookmark_properties]
        /\ built' = SchemaMessage(stream, schema, key_properties, bookmark_properties)
    /\ phase' = "constructed"
    /\ UNCHANGED <<wire, parsed, warnings, writerVars, threadVars>>

NewStateMessage ==
    /\ phase = "start"
    /\ \E value \in Payloads :
        /\ args' = [op |-> "StateMessage", value |-> value]
        /\ built' = StateMessage(value)
    /\ phase' = "constructed"
    /\ UNCHANGED <<wire, parsed, warnings, writerVars, threadVars>>

NewActivateVersionMessage ==
    /\ phase = "start"
    /\ \E stream \in Streams, version \in Versions \ {PyNone} :
        /\ args' = [op |-> "ActivateVersionMessage", stream |-> stream, version |-> version]
        /\ built' = ActivateVersionMessage(stream, version)
    /\ phase' = "constructed"
    /\ UNCHANGED <<wire, parsed, warnings, writerVars, threadVars>>

NewBatchMessage ==
    /\ phase = "start"
    /\ \E stream \in Streams, filepath \in Filepaths, file_format \in FileFormats,
          compression \in Compressions, batch_size \in BatchSizes,
          time_extracted \in TimesExtracted :
        /\ args' = [op |-> "BatchMessage", stream |-> stream, filepath |-> filepath,
                    file_format |-> file_format, compression |-> compression,
                    batch_size |-> batch_size, time_extracted |-> time_extracted]
        /\ built' = BatchMessage(stream, filepath, file_format, compression,
                                 batch_size, time_extracted)
    /\ phase' = "constructed"
    /\ UNCHANGED <<wire, parsed, warnings, writerVars, threadVars>>

\* format_message(message) on the message just constructed
FormatMessage ==
    /\ phase = "constructed"
    /\ IsMessage(built)
    /\ wire' = format_message(built, 0)
    /\ phase' = IF IsRaised(wire') THEN "format failed" ELSE "formatted"
    /\ UNCHANGED <<args, built, parsed, warnings, writerVars, threadVars>>

\* parse_message(msg) on the bytes at hand
ParseMessage ==
    /\ phase \in {"formatted", "received"}
    /\ parsed' = parse_message(wire)
    /\ warnings' = warnings \o parse_warnings(orjson_loads(wire))
    /\ phase' = "parsed"
    /\ UNCHANGED <<args, built, wire, writerVars, threadVars>>

Next ==
    \/ NewRecordMessage
    \/ NewSchemaMessage
    \/ NewStateMessage
    \/ NewActivateVersionMessage
    \/ NewBatchMessage
    \/ FormatMessage
    \/ ParseMessage

Spec == Init /\ [][Next]_vars

-----------------------------------------------------------------------------
(* Properties of construction, asdict and the round trip (checked under Spec) *)

\* the values orjson.loads itself returns: None, str, int, float, list, str-keyed dict
RECURSIVE JsonNative(_)
JsonNative(v) ==
    CASE v.k \in {"NoneType", "str", "int", "float"} -> TRUE
      [] v.k = "list" -> \A i \in 1..Len(v.items) : JsonNative(v.items[i])
      [] v.k = "dict" -> \A key \in DOMAIN v.map : JsonNative(v.map[key])
      [] OTHER -> FALSE

JsonNativeMessage(m) ==
    \A f \in DOMAIN m \ {"cls", "time_extracted"} : JsonNative(m[f])

Constructed == phase /= "start" /\ IsMessage(built)

\* C1 as stated: for every message m that can be constructed,
\* parse_message(format_message(m)) returns a message equal to m (asdict() equality).
C1_RoundTripEveryMessage ==
    (phase = "parsed" /\ IsMessage(built)) =>
        (IsMessage(parsed) /\ Message_eq(built, parsed))

\* C1 amended: for every constructed message whose fields other than time_extracted
\* hold only values the JSON decoder itself returns, format_message succeeds and
\* parse_message(format_message(m)) returns a message equal to m (asdict() equality).
C1_RoundTripJsonNative ==
    (phase \in {"format failed", "parsed"} /\ IsMessage(built) /\ JsonNativeMessage(built)) =>
        (phase = "parsed" /\ IsMessage(parsed) /\ Message_eq(built, parsed))

\* a RECORD with version 0 and an aware time_extracted at +01:00 has gone round
C1_Witness ==
    /\ phase = "parsed"
    /\ IsMessage(built)
    /\ built.cls = "RecordMessage"
    /\ built.version = PyInt(0)
    /\ built.time_extracted = PyDateTime(120, TRUE, 60)
    /\ JsonNativeMessage(built)
    /\ IsMessage(parsed)
    /\ parsed.version = PyInt(0)
    /\ parsed.time_extracted = PyDateTime(60, TRUE, 0)

RequiredFields(cls) ==
    CASE cls = "RecordMessage" -> {"stream", "record"}
      [] cls = "SchemaMessage" -> {"stream", "schema", "key_properties"}
      [] cls = "StateMessage" -> {"value"}
      [] cls = "ActivateVersionMessage" -> {"stream", "version"}
      [] cls = "BatchMessage" -> {"stream", "filepath", "format"}

OptionalFields(cls) ==
    CASE cls = "RecordMessage" -> {"version", "time_extracted"}
      [] cls = "SchemaMessage" -> {"bookmark_properties"}
      [] cls = "BatchMessage" -> {"compression", "batch_size", "time_extracted"}
      [] OTHER -> {}

HasKeys(m) == DOMAIN asdict(m).map

\* bookmark_properties and time_extracted hold nothing or a value of their documented
\* type, a list and a datetime
WellTyped(m) ==
    /\ "bookmark_properties" \in DOMAIN m =>
            m.bookmark_properties.k \in {"NoneType", "list"}
    /\ "time_extracted" \in DOMAIN m =>
            m.time_extracted.k \in {"NoneType", "datetime"}

\* C6 as stated (read on messages whose optional fields hold values of their documented
\* types): asdict() always has 'type' and every required field, and has the key of an
\* optional field exactly when that field was set on the message; an absent optional
\* field is never emitted with a null value.
C6_OptionalKeyIffSet ==
    (Constructed /\ WellTyped(built)) =>
        /\ {"type"} \cup RequiredFields(built.cls) \subseteq HasKeys(built)
        /\ \A f \in OptionalFields(built.cls) :
            /\ (f \in HasKeys(built)) <=> (built[f] /= PyNone)
            /\ f \in HasKeys(built) => asdict(built).map[f] /= PyNone

\* C6 amended: asdict() always has 'type' and every required field; it has the key of
\* version, compression or batch_size exactly when that field is not None, the key
\* time_extracted exactly when the field holds a datetime, and the key
\* bookmark_properties exactly when the stored value is a non-empty list (an empty
\* list is left out like an absent one); no optional key carries null.
C6_OptionalKeyIffSetOrNonEmpty ==
    Constructed =>
        /\ {"type"} \cup RequiredFields(built.cls) \subseteq HasKeys(built)
        /\ \A f \in OptionalFields(built.cls) :
            /\ (f \in HasKeys(built)) <=>
                    CASE f = "bookmark_properties" ->
                            built[f].k = "list" /\ Len(built[f].items) > 0
                      [] f = "time_extracted" -> built[f].k = "datetime"
                      [] OTHER -> built[f] /= PyNone
            /\ f \in HasKeys(built) => asdict(built).map[f] /= PyNone

\* a SCHEMA message holding an empty bookmark_properties list, whose mapping lacks the
\* key, has been constructed
C6_Witness ==
    /\ Constructed
    /\ built.cls = "SchemaMessage"
    /\ built.bookmark_properties = PyList(<<>>)
    /\ "bookmark_properties" \notin HasKeys(built)

IsListOfStrings(v) ==
    v.k = "list" /\ \A i \in 1..Len(v.items) : v.items[i].k = "str"

\* C7 as stated: constructing a SCHEMA message with key_properties that is not a list
\* of strings fails at construction; a bare string is an error and is not normalized.
C7_KeyPropertiesValidated ==
    (phase /= "start" /\ args.op = "SchemaMessage" /\ ~IsListOfStrings(args.key_properties)) =>
        IsRaised(built)

\* C7 amended: the SchemaMessage constructor neither validates nor normalizes
\* key_properties: construction fails only on account of bookmark_properties, and the
\* message holds key_properties exactly as given (a bare string stays a bare string).
C7_KeyPropertiesStoredAsGiven ==
    (phase /= "start" /\ args.op = "SchemaMessage") =>
        /\ IsRaised(built) <=>
                /\ Truthy(args.bookmark_properties)
                /\ args.bookmark_properties.k \notin {"str", "bytes", "list"}
        /\ IsMessage(built) => built.key_properties = args.key_properties

\* a SCHEMA message was constructed from a bare-string key_properties and holds it
C7_Witness ==
    /\ phase /= "start"
    /\ args.op = "SchemaMessage"
    /\ args.key_properties = PyStr("id")
    /\ IsMessage(built)
    /\ built.key_properties = PyStr("id")

\* C8: SchemaMessage construction turns a single string bookmark_properties into a
\* one-element list, keeps a list as given, keeps absent absent, and fails for every
\* other non-list value (0, an empty mapping, a tuple, a number, a mapping).
C8_BookmarkPropertiesRule ==
    (phase /= "start" /\ args.op = "SchemaMessage") =>
        CASE args.bookmark_properties.k = "str" ->
                IsMessage(built)
                /\ built.bookmark_properties = PyList(<<args.bookmark_properties>>)
          [] args.bookmark_properties.k \in {"list", "NoneType"} ->
                IsMessage(built)
                /\ built.bookmark_properties = args.bookmark_properties
          [] OTHER -> IsRaised(built)

IsNaive(v) == v.k = "datetime" /\ ~v.aware

\* C9: constructing a RECORD or a BATCH message with a naive time_extracted always
\* fails, so no such message object holds a naive time_extracted; an absent or an
\* aware time_extracted is accepted.
C9_NaiveTimeExtractedRejected ==
    (phase /= "start" /\ args.op \in {"RecordMessage", "BatchMessage"}) =>
        /\ IsNaive(args.time_extracted) =>
                IsRaised(built) /\ built.raised = "ValueError"
        /\ ~IsNaive(args.time_extracted) =>
                IsMessage(built) /\ built.time_extracted = args.time_extracted
        /\ IsMessage(built) => ~IsNaive(built.time_extracted)

\* a BATCH construction with a naive time_extracted has been refused
C9_Witness ==
    /\ phase /= "start"
    /\ args.op = "BatchMessage"
    /\ IsNaive(args.time_extracted)
    /\ IsRaised(built)

-----------------------------------------------------------------------------
(* Parsing a received line: the JSON objects a tap may send *)

\* the value each key carries when the object has it
SampleMember(key) ==
    CASE key = "stream" -> JString(PyStr("users"))
      [] key = "record" -> JObject("id" :> JInt(1))
      [] key = "schema" -> JObject(EmptyMap)
      [] key = "key_properties" -> JArray(<<JString(PyStr("id"))>>)
      [] key = "bookmark_properties" -> JArray(<<JString(PyStr("updated_at"))>>)
      [] key = "value" -> JObject("users" :> JInt(2))
      [] key = "version" -> JInt(0)
      [] key = "filepath" -> JString(PyStr("/tmp/users0001.jsonl"))
      [] key = "format" -> JString(PyStr("csv"))
      [] key = "compression" -> JString(PyStr("gzip"))
      [] key = "batch_size" -> JInt(0)

WireKeys ==
    {"stream", "record", "schema", "key_properties", "bookmark_properties", "value",
     "version", "filepath", "format", "compression", "batch_size"}

KnownTypes == {"RECORD", "SCHEMA", "STATE", "ACTIVATE_VERSION", "BATCH"}

\* the values of 'type': the five discriminators, and values that are none of them
WireTypes ==
    {JString(PyStr(ty)) : ty \in KnownTypes}
    \cup {JString(PyStr("FUTURE_MSG")), JString(PyStr("record")), JNull, JInt(1)}

\* the values of 'time_extracted': UTC text, +01:00 text, text with no offset,
\* text that is no timestamp, a number
WireTimes ==
    { JString(PyTimeStr(60, TRUE, 0)), JString(PyTimeStr(120, TRUE, 60)),
      JString(PyTimeStr(60, FALSE, 0)), JString(PyStr("not-a-date")), JInt(5) }

Members(keys, types, times) ==
    [key \in keys |-> SampleMember(key)]
    @@ [key \in {"type" : ty \in types} |-> CHOOSE ty \in types : TRUE]
    @@ [key \in {"time_extracted" : te \in times} |-> CHOOSE te \in times : TRUE]

InitParse ==
    /\ phase = "received"
    /\ args = Idle
    /\ built = PyNone
    /\ \E keys \in SUBSET WireKeys :
       \E types \in {{}} \cup {{ty} : ty \in WireTypes} :
       \E times \in {{}} \cup {{te} : te \in WireTimes} :
            wire = Bytes(<<JObject(Members(keys, types, times)), Newline>>)
    /\ parsed = PyNone
    /\ warnings = <<>>
    /\ InitWriter
    /\ NoThreads

NextParse == ParseMessage

SpecParse == InitParse /\ [][NextParse]_vars

-----------------------------------------------------------------------------
(* Properties of parse_message on received lines (checked under SpecParse) *)

\* the members of the JSON object on the wire
Received == wire.data[1].members

TypeIs(ty) == "type" \in DOMAIN Received /\ Received["type"] = JString(PyStr(ty))

RequiredOnWire(ty) ==
    CASE ty = "RECORD" -> {"stream", "record"}
      [] ty = "SCHEMA" -> {"stream", "schema", "key_properties"}
      [] ty = "STATE" -> {"value"}
      [] ty = "ACTIVATE_VERSION" -> {"stream", "version"}
      [] ty = "BATCH" -> {"stream", "filepath", "format"}

\* C3: parse_message raises whenever the object lacks 'type' or a required wire field
\* of its known type, and the error names a required key the object lacks; a BATCH
\* object without 'format' is rejected although the constructor would default it.
C3_MissingRequiredKeyRaises ==
    phase = "parsed" =>
        /\ "type" \notin DOMAIN Received =>
                IsRaised(parsed) /\ "key" \in DOMAIN parsed /\ parsed.key = "type"
        /\ \A ty \in KnownTypes :
                (TypeIs(ty) /\ ~(RequiredOnWire(ty) \subseteq DOMAIN Received)) =>
                    /\ IsRaised(parsed)
                    /\ "key" \in DOMAIN parsed
                    /\ parsed.key \in RequiredOnWire(ty) \ DOMAIN Received

\* a BATCH object with stream and filepath but no format has been rejected for 'format'
C3_Witness ==
    /\ phase = "parsed"
    /\ TypeIs("BATCH")
    /\ {"stream", "filepath"} \subseteq DOMAIN Received
    /\ "format" \notin DOMAIN Received
    /\ IsRaised(parsed)
    /\ parsed.key = "format"

\* time_extracted is present and is not the text of an aware timestamp
UnparsableTimeExtracted ==
    /\ "time_extracted" \in DOMAIN Received
    /\ LET te == Received["time_extracted"] IN
        ~(te.j = "string" /\ "ts" \in DOMAIN te.str /\ te.str.aware)

\* C4: for a RECORD or BATCH object with all required fields, a time_extracted that is
\* present but is no aware timestamp (garbage text, or a timestamp without an offset)
\* does not fail the parse: the message comes back with time_extracted absent, every
\* other field as given, and a warning is logged.
C4_UnparsableTimeExtractedDegrades ==
    \A ty \in {"RECORD", "BATCH"} :
        ( /\ phase = "parsed"
          /\ TypeIs(ty)
          /\ RequiredOnWire(ty) \subseteq DOMAIN Received
          /\ UnparsableTimeExtracted ) =>
            /\ IsMessage(parsed)
            /\ parsed.time_extracted = PyNone
            /\ \A f \in DOMAIN parsed \ {"cls", "time_extracted"} :
                parsed[f] = IF f \in DOMAIN Received
                            THEN orjson_loads_value(Received[f]) ELSE PyNone
            /\ Len(warnings) = 1

\* C5: for every object whose 'type' is present and is none of the five known
\* discriminators, parse_message returns None without raising, whatever other keys
\* the object has or lacks.
C5_UnknownTypeReturnsNone ==
    ( /\ phase = "parsed"
      /\ "type" \in DOMAIN Received
      /\ \A ty \in KnownTypes : ~TypeIs(ty) ) =>
        parsed = PyNone

\* the object {"type": "FUTURE_MSG"} alone has been parsed to None
C5_Witness ==
    /\ phase = "parsed"
    /\ TypeIs("FUTURE_MSG")
    /\ DOMAIN Received = {"type"}
    /\ parsed = PyNone

-----------------------------------------------------------------------------
(* One producer calling the write_* functions, one call after another *)

MaxLines == 3
MaxRecords == 2

DirectMessages ==
    { RecordMessage(PyStr("users"), PyDict("id" :> PyInt(1)), PyInt(0), PyDateTime(120, TRUE, 60)),
      StateMessage(PyDict("amount" :> PyDecimal(105))) }

WriterRecords == {PyDict("id" :> PyInt(1)), PyDict("blob" :> PyBytes("x"))}

RecordLists == UNION {[1..n -> WriterRecords] : n \in 0..MaxRecords}

\* the history stays within the bound
Fits(effect) == Len(written) + Len(effect.wrote) <= MaxLines

WriteMessage ==
    /\ \E message \in DirectMessages :
        LET effect == write_message(stdout, message) IN
        /\ Fits(effect)
        /\ stdout' = effect.stdout
        /\ written' = written \o effect.wrote
        /\ raised' = effect.raised
    /\ UNCHANGED <<pipelineVars, threadVars>>

WriteRecord ==
    /\ \E stream_alias \in {PyNone, PyStr("people")},
          time_extracted \in {PyNone, PyDateTime(60, FALSE, 0)} :
        LET effect == write_record(stdout, PyStr("users"), PyDict("id" :> PyInt(1)),
                                   stream_alias, time_extracted) IN
        /\ Fits(effect)
        /\ stdout' = effect.stdout
        /\ written' = written \o effect.wrote
        /\ raised' = effect.raised
    /\ UNCHANGED <<pipelineVars, threadVars>>

WriteRecords ==
    /\ \E records \in RecordLists :
        LET effect == write_records(stdout, PyStr("users"), records) IN
        /\ Fits(effect)
        /\ stdout' = effect.stdout
        /\ written' = written \o effect.wrote
        /\ raised' = effect.raised
    /\ UNCHANGED <<pipelineVars, threadVars>>

WriteSchema ==
    /\ \E key_properties \in {PyList(<<PyStr("id")>>), PyStr("id"), PyInt(7)},
          bookmark_properties \in {PyNone, PyInt(5)} :
        LET effect == write_schema(stdout, PyStr("users"), PyDict(EmptyMap), key_properties,
                                   bookmark_properties, PyNone) IN
        /\ Fits(effect)
        /\ stdout' = effect.stdout
        /\ written' = written \o effect.wrote
        /\ raised' = effect.raised
    /\ UNCHANGED <<pipelineVars, threadVars>>

WriteState ==
    /\ \E value \in {PyDict("users" :> PyInt(2))} :
        LET effect == write_state(stdout, value) IN
        /\ Fits(effect)
        /\ stdout' = effect.stdout
        /\ written' = written \o effect.wrote
        /\ raised' = effect.raised
    /\ UNCHANGED <<pipelineVars, threadVars>>

WriteVersion ==
    /\ \E version \in {PyInt(0)} :
        LET effect == write_version(stdout, PyStr("users"), version) IN
        /\ Fits(effect)
        /\ stdout' = effect.stdout
        /\ written' = written \o effect.wrote
        /\ raised' = effect.raised
    /\ UNCHANGED <<pipelineVars, threadVars>>

WriteBatch ==
    /\ \E time_extracted \in {PyNone, PyDateTime(60, TRUE, 0)} :
        LET effect == write_batch(stdout, PyStr("users"), PyStr("/tmp/users0001.jsonl"),
                                  PyNone, PyNone, PyNone, time_extracted) IN
        /\ Fits(effect)
        /\ stdout' = effect.stdout
        /\ written' = written \o effect.wrote
        /\ raised' = effect.raised
    /\ UNCHANGED <<pipelineVars, threadVars>>

NextWriter ==
    \/ WriteMessage
    \/ WriteRecord
    \/ WriteRecords
    \/ WriteSchema
    \/ WriteState
    \/ WriteVersion
    \/ WriteBatch

SpecWriter == Init /\ [][NextWriter]_vars

\* the bytes of the line write_message produces for message m
Line(m) == <<orjson_encode(asdict(m)), Newline>>

RECURSIVE Lines(_)
Lines(ms) == IF ms = <<>> THEN <<>> ELSE Line(Head(ms)) \o Lines(Tail(ms))

\* C2: after n successful write_message calls on an empty sink the sink holds exactly
\* n lines, the i-th being the encoding of the i-th written message followed by exactly
\* one newline, in call order; and no call returns with its line still unflushed.
C2_OneFlushedLinePerMessage ==
    /\ stdout.buffer = <<>>
    /\ Len(stdout.file) = 2 * Len(written)
    /\ \A i \in 1..Len(written) :
        /\ stdout.file[2 * i - 1] = orjson_encode(asdict(written[i]))
        /\ stdout.file[2 * i] = Newline
    /\ \A i \in 1..Len(stdout.file) :
        (stdout.file[i] = Newline) <=> (i % 2 = 0)

\* a SCHEMA, then a RECORD, then a STATE have been written and are the three lines
C2_Witness ==
    /\ Len(written) = 3
    /\ written[1].cls = "SchemaMessage"
    /\ written[2].cls = "RecordMessage"
    /\ written[3].cls = "StateMessage"
    /\ stdout.file = Lines(written)

-----------------------------------------------------------------------------
(* Several producer threads calling write_message on the one sys.stdout.buffer *)

NumThreads == 2
MaxCalls == 3

Threads == 1..NumThreads

\* what thread t writes: messages no other thread writes
ThreadMessages(t) ==
    {StateMessage(PyDict("thread" :> PyInt(t))), ActivateVersionMessage(PyStr("users"), PyInt(t))}

InitThreads ==
    /\ InitPipeline
    /\ InitWriter
    /\ pc = [t \in Threads |-> "idle"]
    /\ staged = [t \in Threads |-> [message |-> PyNone, bytes |-> Bytes(<<>>)]]

InCall(t) == pc[t] /= "idle"

\* write_message is entered and format_message(message, option=OPT_APPEND_NEWLINE),
\* the argument of the write, is evaluated
ThreadFormat(t) ==
    /\ pc[t] = "idle"
    /\ Len(written) + Cardinality({u \in Threads : InCall(u)}) < MaxCalls
    /\ \E message \in ThreadMessages(t) :
        staged' = [staged EXCEPT ![t] =
                    [message |-> message,
                     bytes |-> format_message(message, OPT_APPEND_NEWLINE)]]
    /\ pc' = [pc EXCEPT ![t] = "formatted"]
    /\ UNCHANGED <<pipelineVars, writerVars>>

\* sys.stdout.buffer.write(...) of the bytes formatted
ThreadWrite(t) ==
    /\ pc[t] = "formatted"
    /\ stdout' = BufferedWriter_write(stdout, staged[t].bytes)
    /\ pc' = [pc EXCEPT ![t] = "appended"]
    /\ UNCHANGED <<pipelineVars, written, raised, staged>>

\* sys.stdout.buffer.flush(), and the call returns
ThreadFlush(t) ==
    /\ pc[t] = "appended"
    /\ stdout' = BufferedWriter_flush(stdout)
    /\ written' = Append(written, staged[t].message)
    /\ pc' = [pc EXCEPT ![t] = "idle"]
    /\ UNCHANGED <<pipelineVars, raised, staged>>

NextThreads == \E t \in Threads : ThreadFormat(t) \/ ThreadWrite(t) \/ ThreadFlush(t)

SpecThreads == InitThreads /\ [][NextThreads]_vars

\* everything written so far, flushed or still pending
Content == stdout.file \o stdout.buffer

\* C10 as stated: the format-append-flush sequence of one write_message call is
\* mutually exclusive with that of every other call; in particular no two calls are
\* at once between their append and their flush.
C10_MutualExclusion ==
    \A t \in Threads, u \in Threads :
        (t /= u /\ pc[t] = "appended") => pc[u] /= "appended"

\* C10 amended: write_message takes no lock, so calls of different threads overlap;
\* yet each call appends its whole line in one write, so under every interleaving the
\* sink content is a sequence of whole lines, each the complete encoding of exactly one
\* message followed by one newline, one line per append, and a call that has returned
\* has its line flushed.
C10_WholeLines ==
    /\ Len(Content) = 2 * (Len(written) + Cardinality({t \in Threads : pc[t] = "appended"}))
    /\ \A i \in 1..Len(Content) :
        IF i % 2 = 0 THEN Content[i] = Newline
        ELSE \E t \in Threads : \E m \in ThreadMessages(t) :
                Content[i] = orjson_encode(asdict(m))
    /\ Len(stdout.file) >= 2 * Len(written)
    /\ \A i \in 1..Len(written) :
        \E n \in 1..(Len(stdout.file) \div 2) : stdout.file[2 * n - 1] = orjson_encode(asdict(written[i]))

\* two threads are inside write_message at once, both past their append, and the
\* content is their two whole lines
C10_Witness ==
    /\ pc[1] = "appended"
    /\ pc[2] = "appended"
    /\ Len(Content) = 4
    /\ Content[2] = Newline
    /\ Content[4] = Newline
    /\ Content[1] /= Content[3]

====
